---- MODULE Spec2Model ----
(***************************************************************************)
(* Model of the test_suite! macro of test_suite_rs (src/src/lib.rs).       *)
(*                                                                         *)
(* Two phases are modelled.                                                *)
(*  - Generation: the macro_rules! arms are matched against the suite      *)
(*    description, the module tree is emitted and the enclosing compiler   *)
(*    resolves names and types of what was emitted (Expand).               *)
(*  - Execution: the harness runs every generated #[test] fn, in any       *)
(*    interleaving, one statement of the generated fn per step.            *)
(*                                                                         *)
(* Panics are unwinding panics (the default of the test profile), so       *)
(* std::panic::catch_unwind turns a panic of its closure into Err(payload).*)
(***************************************************************************)
EXTENDS Integers, Sequences, FiniteSets, TLC

\* Largest number of fixture types of a setup and of bindings of a test.
MaxArity == 2

\* Identifiers the descriptions draw test and mod names from (the names of
\* test::test_suite_with_mods), and the fixture type of test::setup.
TestNames == {"test1", "test2"}
ModNames == {"test_mod", "other_mod"}
ArgTypes == {"i32"}

VARIABLES
    suite,            \* the tokens given to test_suite! (the input)
    expansion,        \* what generation made of it
    pc,               \* per unit: the statement the generated fn is at
    bindings,         \* per unit: the values of the names bound by the let
    test_result,      \* per unit: the local test_result
    teardown_result,  \* per unit: the local teardown_result
    report,           \* per unit: what the harness is told
    trace,            \* per unit: the calls made so far, in order (history)
    setupCalls,       \* per unit: the invocation numbers of its calls of the user's setup
    setupCount,       \* side-effect counter of the user's setup (all units)
    teardownCount     \* per unit: calls of the user's teardown

vars == <<suite, expansion, pc, bindings, test_result, teardown_result, report,
          trace, setupCalls, setupCount, teardownCount>>

(***************************************************************************)
(* Suite descriptions                                                      *)
(***************************************************************************)
SeqsUpTo(S, n) == UNION {[1..m -> S] : m \in 0..n}

\* test $test_name $(( bindings ))? $test:block ; binds = 0 is "no parentheses".
TestEntries == [name : TestNames, binds : 0..MaxArity]

\* One namespace holds at most as many tests as there are names to tell apart,
\* and may repeat a name.
TestLists == SeqsUpTo(TestEntries, Cardinality(TestNames))

\* mod $mod_name { test ... }
ModEntries == [name : ModNames, tests : TestLists]

\* - setup: $setup $(( types ))?   (absent, or an identifier with 0..MaxArity types)
SetupDecls ==
    {[declared |-> FALSE, types |-> <<>>]} \cup
    [declared : {TRUE}, types : SeqsUpTo(ArgTypes, MaxArity)]

\* A suite is flat (test blocks) or grouped (mod blocks).
FlatSuites ==
    [setup : SetupDecls, teardown : BOOLEAN, mods : {<<>>}, tests : TestLists]

GroupedSuites ==
    [setup : SetupDecls, teardown : BOOLEAN,
     mods : SeqsUpTo(ModEntries, Cardinality(ModNames)), tests : {<<>>}]

Suites == FlatSuites \cup GroupedSuites

\* The suites whose units are run: flat ones and those of at most one mod.
RunSuites == {s \in Suites : Len(s.mods) <= 1}

(***************************************************************************)
(* Generation                                                              *)
(***************************************************************************)
\* First arm: after the header, zero or more mod blocks (and no test block).
MatchesGroupedArm(s) == s.tests = <<>>

\* Second arm: after the header, zero or more test blocks (and no mod block).
MatchesFlatArm(s) == s.mods = <<>>

\* fn __internal_test_suite_setup() $($(-> ($($arg_type),*))?)?
\* No types: the fn returns ().  One type: "(T)" is T in parentheses, not a
\* 1-tuple; the fixture types of ArgTypes are not tuples themselves.  Two or
\* more: a tuple of that many fields.
SetupReturnShape(s) ==
    LET n == Len(s.setup.types) IN
    IF n = 0 THEN [tuple |-> TRUE, arity |-> 0]
    ELSE IF n = 1 THEN [tuple |-> FALSE, arity |-> 0]
    ELSE [tuple |-> TRUE, arity |-> n]

\* $(let ($($($arg_name)*),*) =)? __internal_test_suite_setup();
\* No bindings: no let at all.  One binding: "(a)" is the identifier pattern a
\* in parentheses, which matches a value of any type.  Two or more: a tuple
\* pattern, which needs a tuple of the same number of fields.
PatternTypeChecks(k, shape) ==
    \/ k = 0
    \/ k = 1
    \/ k >= 2 /\ shape.tuple /\ shape.arity = k

\* Items of one namespace must have distinct names (E0428).
DistinctNames(entries) ==
    \A i, j \in 1..Len(entries) : entries[i].name = entries[j].name => i = j

Unit(path, entry) == [path |-> path, binds |-> entry.binds]

\* The #[test] fns of one emitted mod $mod_name: one per test block.
ModUnits(m) == [i \in 1..Len(m.tests) |-> Unit(<<m.name, m.tests[i].name>>, m.tests[i])]

\* Variant: only the first mod block is emitted.
FlattenModsFirstOnly(mods) == IF mods = <<>> THEN <<>> ELSE ModUnits(Head(mods))

RECURSIVE FlattenMods(_)
FlattenMods(mods) ==
    IF mods = <<>> THEN <<>>
    ELSE ModUnits(Head(mods)) \o FlattenMods(Tail(mods))

\* The #[test] fns the grouped arm emits, each in its mod $mod_name.
GroupedUnits(s) == FlattenMods(s.mods)

\* The #[test] fns the flat arm emits: one per test, directly in mod $suite_name.
FlatUnits(s) == [i \in 1..Len(s.tests) |-> Unit(<<s.tests[i].name>>, s.tests[i])]

GeneratedUnits(s) == IF MatchesGroupedArm(s) THEN GroupedUnits(s) ELSE FlatUnits(s)

\* The whole of generation: arm selection, emission, then the compiler's
\* checks of the emitted module.
ExpandSuite(s) ==
    IF ~MatchesGroupedArm(s) /\ ~MatchesFlatArm(s)
    THEN [ok |-> FALSE, error |-> "no rules expected this token", units |-> <<>>]
    ELSE IF ~DistinctNames(s.tests) \/ ~DistinctNames(s.mods)
            \/ \E i \in 1..Len(s.mods) : ~DistinctNames(s.mods[i].tests)
    THEN [ok |-> FALSE, error |-> "defined multiple times", units |-> <<>>]
    ELSE IF \E i \in 1..Len(GeneratedUnits(s)) :
               ~PatternTypeChecks(GeneratedUnits(s)[i].binds, SetupReturnShape(s))
    THEN [ok |-> FALSE, error |-> "mismatched types", units |-> <<>>]
    ELSE [ok |-> TRUE, error |-> "", units |-> GeneratedUnits(s)]

(***************************************************************************)
(* Values at run time                                                      *)
(***************************************************************************)
\* The i-th fixture the user's setup builds on its call-th invocation: a
\* setup whose fixtures differ from one invocation to the next.
Fixture(call, i) == [tuple |-> FALSE, fields |-> <<>>, call |-> call, idx |-> i]

UnitValue == [tuple |-> TRUE, fields |-> <<>>, call |-> 0, idx |-> 0]

Tuple(fields) == [tuple |-> TRUE, fields |-> fields, call |-> 0, idx |-> 0]

\* What the user's setup returns, of the type "- setup:" declares for it.
UserSetup(s, call) ==
    LET n == Len(s.setup.types) IN
    IF n = 0 THEN UnitValue
    ELSE IF n = 1 THEN Fixture(call, 1)
    ELSE Tuple([i \in 1..n |-> Fixture(call, i)])

\* Variant: the fixtures of the first invocation are kept and handed to every unit.
InternalSetupCached(s, call) == IF s.setup.declared THEN UserSetup(s, 1) ELSE UnitValue

\* fn __internal_test_suite_setup() { $($setup())? }
InternalSetup(s, call) == IF s.setup.declared THEN UserSetup(s, call) ELSE UnitValue

\* let (a, b, ...) = value;  the values of the k names, in order.
BindPattern(k, value) ==
    IF k = 0 THEN <<>>
    ELSE IF k = 1 THEN <<value>>
    ELSE value.fields

\* Panic payloads: the value a panic carries.
NoPayload == [origin |-> "none", unit |-> 0]

UserPanic(origin, u) == [origin |-> origin, unit |-> u]

\* Result<(), Box<dyn Any + Send>>
Unset == [state |-> "unset", err |-> NoPayload]

Ok == [state |-> "Ok", err |-> NoPayload]

Err(payload) == [state |-> "Err", err |-> payload]

\* std::panic::catch_unwind(closure)
CatchUnwind(panics, payload) == IF panics THEN Err(payload) ELSE Ok

\* Result::unwrap on Err(e) panics with a message of its own, the string
\* "called `Result::unwrap()` on an `Err` value: Any { .. }": a new payload,
\* e is dropped.
UnwrapPanic(result, u) == [origin |-> "Result::unwrap", unit |-> u]

\* What the harness knows of a unit.
Running == [status |-> "running", raised |-> "none", payload |-> NoPayload]

Passed == [status |-> "passed", raised |-> "none", payload |-> NoPayload]

Failed(raised, payload) == [status |-> "failed", raised |-> raised, payload |-> payload]

(***************************************************************************)
(* Initial states                                                          *)
(***************************************************************************)
Unexpanded == [ok |-> FALSE, error |-> "not expanded", units |-> <<>>]

Units == 1..Len(expansion.units)

InitOf(S) ==
    /\ suite \in S
    /\ expansion = Unexpanded
    /\ pc = <<>>
    /\ bindings = <<>>
    /\ test_result = <<>>
    /\ teardown_result = <<>>
    /\ report = <<>>
    /\ trace = <<>>
    /\ setupCalls = <<>>
    /\ setupCount = 0
    /\ teardownCount = <<>>

Init == InitOf(RunSuites)

InitExpand == InitOf(Suites)

(***************************************************************************)
(* Generation step                                                         *)
(***************************************************************************)
\* test_suite! { ... } is expanded and compiled; every generated #[test] fn
\* is then known to the harness, not yet run.
Expand ==
    /\ expansion = Unexpanded
    /\ expansion' = ExpandSuite(suite)
    /\ LET U == 1..Len(ExpandSuite(suite).units) IN
        /\ pc' = [u \in U |-> "setup"]
        /\ bindings' = [u \in U |-> <<>>]
        /\ test_result' = [u \in U |-> Unset]
        /\ teardown_result' = [u \in U |-> Unset]
        /\ report' = [u \in U |-> Running]
        /\ trace' = [u \in U |-> <<>>]
        /\ setupCalls' = [u \in U |-> <<>>]
        /\ teardownCount' = [u \in U |-> 0]
    /\ UNCHANGED <<suite, setupCount>>

(***************************************************************************)
(* The generated #[test] fn, one statement per action                      *)
(***************************************************************************)
\* Variant: the setup call is made inside the failure-isolating region of the
\* body, so that its panic is captured as the body's.
CallSetupCaught(u, panics) ==
    /\ pc[u] = "setup"
    /\ panics => suite.setup.declared
    /\ setupCount' = IF suite.setup.declared THEN setupCount + 1 ELSE setupCount
    /\ setupCalls' = [setupCalls EXCEPT ![u] =
                        IF suite.setup.declared THEN Append(@, setupCount + 1) ELSE @]
    /\ IF panics
       THEN /\ test_result' = [test_result EXCEPT ![u] = Err(UserPanic("setup", u))]
            /\ pc' = [pc EXCEPT ![u] = "teardown"]
            /\ trace' = [trace EXCEPT ![u] = Append(@, "setup_panic")]
            /\ UNCHANGED bindings
       ELSE /\ bindings' = [bindings EXCEPT ![u] =
                    BindPattern(expansion.units[u].binds, InternalSetup(suite, setupCount + 1))]
            /\ pc' = [pc EXCEPT ![u] = "body"]
            /\ trace' = [trace EXCEPT ![u] = Append(@, "setup")]
            /\ UNCHANGED test_result
    /\ UNCHANGED <<suite, expansion, report, teardown_result, teardownCount>>

\* $(let (...) =)? __internal_test_suite_setup();   (outside any catch_unwind)
CallSetup(u, panics) ==
    /\ pc[u] = "setup"
    /\ panics => suite.setup.declared
    /\ setupCount' = IF suite.setup.declared THEN setupCount + 1 ELSE setupCount
    /\ setupCalls' = [setupCalls EXCEPT ![u] =
                        IF suite.setup.declared THEN Append(@, setupCount + 1) ELSE @]
    /\ IF panics
       THEN /\ report' = [report EXCEPT ![u] = Failed("setup", UserPanic("setup", u))]
            /\ pc' = [pc EXCEPT ![u] = "done"]
            /\ trace' = [trace EXCEPT ![u] = @ \o <<"setup_panic", "report">>]
            /\ UNCHANGED bindings
       ELSE /\ bindings' = [bindings EXCEPT ![u] =
                    BindPattern(expansion.units[u].binds, InternalSetup(suite, setupCount + 1))]
            /\ pc' = [pc EXCEPT ![u] = "body"]
            /\ trace' = [trace EXCEPT ![u] = Append(@, "setup")]
            /\ UNCHANGED report
    /\ UNCHANGED <<suite, expansion, test_result, teardown_result, teardownCount>>

\* catch_unwind(AssertUnwindSafe(|| { $test })): the body starts ...
StartBody(u) ==
    /\ pc[u] = "body"
    /\ pc' = [pc EXCEPT ![u] = "in_body"]
    /\ trace' = [trace EXCEPT ![u] = Append(@, "body")]
    /\ UNCHANGED <<suite, expansion, bindings, test_result, teardown_result, report,
                   setupCalls, setupCount, teardownCount>>

\* Variant: the body runs outside any catch_unwind, so that its panic unwinds
\* out of the fn at once.
FinishBodyUncaught(u, panics) ==
    /\ pc[u] = "in_body"
    /\ IF panics
       THEN /\ report' = [report EXCEPT ![u] = Failed("test_result", UserPanic("body", u))]
            /\ pc' = [pc EXCEPT ![u] = "done"]
            /\ trace' = [trace EXCEPT ![u] = @ \o <<"body_end", "report">>]
            /\ UNCHANGED test_result
       ELSE /\ test_result' = [test_result EXCEPT ![u] = Ok]
            /\ pc' = [pc EXCEPT ![u] = "teardown"]
            /\ trace' = [trace EXCEPT ![u] = Append(@, "body_end")]
            /\ UNCHANGED report
    /\ UNCHANGED <<suite, expansion, bindings, teardown_result,
                   setupCalls, setupCount, teardownCount>>

\* ... and ends, by returning or by a panic, which catch_unwind captures.
FinishBody(u, panics) ==
    /\ pc[u] = "in_body"
    /\ test_result' = [test_result EXCEPT ![u] = CatchUnwind(panics, UserPanic("body", u))]
    /\ pc' = [pc EXCEPT ![u] = "teardown"]
    /\ trace' = [trace EXCEPT ![u] = Append(@, "body_end")]
    /\ UNCHANGED <<suite, expansion, bindings, teardown_result, report,
                   setupCalls, setupCount, teardownCount>>

\* Variant: teardown is called only after a body that returned.
RunTeardownIfBodyOk(u, panics) ==
    /\ pc[u] = "teardown"
    /\ panics => suite.teardown /\ test_result[u].state = "Ok"
    /\ teardownCount' = [teardownCount EXCEPT ![u] =
                            IF suite.teardown /\ test_result[u].state = "Ok" THEN @ + 1 ELSE @]
    /\ teardown_result' = [teardown_result EXCEPT ![u] =
                              CatchUnwind(panics, UserPanic("teardown", u))]
    /\ pc' = [pc EXCEPT ![u] = "unwrap_test"]
    /\ trace' = [trace EXCEPT ![u] = Append(@, "teardown")]
    /\ UNCHANGED <<suite, expansion, bindings, test_result, report, setupCalls, setupCount>>

\* catch_unwind(move || { __internal_test_suite_teardown(); }), where
\* fn __internal_test_suite_teardown() { $($teardown();)? }
RunTeardown(u, panics) ==
    /\ pc[u] = "teardown"
    /\ panics => suite.teardown
    /\ teardownCount' = [teardownCount EXCEPT ![u] = IF suite.teardown THEN @ + 1 ELSE @]
    /\ teardown_result' = [teardown_result EXCEPT ![u] =
                              CatchUnwind(panics, UserPanic("teardown", u))]
    /\ pc' = [pc EXCEPT ![u] = "unwrap_test"]
    /\ trace' = [trace EXCEPT ![u] = Append(@, "teardown")]
    /\ UNCHANGED <<suite, expansion, bindings, test_result, report, setupCalls, setupCount>>

\* Variant: test_result is dropped without being looked at.
UnwrapTestResultIgnored(u) ==
    /\ pc[u] = "unwrap_test"
    /\ pc' = [pc EXCEPT ![u] = "unwrap_teardown"]
    /\ UNCHANGED <<suite, expansion, bindings, test_result, teardown_result, report, trace,
                   setupCalls, setupCount, teardownCount>>

\* Variant: the two unwraps in the other order, teardown_result first.
UnwrapTeardownResultFirst(u) ==
    /\ pc[u] = "unwrap_test"
    /\ IF teardown_result[u].state = "Err"
       THEN /\ report' = [report EXCEPT ![u] =
                            Failed("teardown_result", UnwrapPanic(teardown_result[u], u))]
            /\ pc' = [pc EXCEPT ![u] = "done"]
            /\ trace' = [trace EXCEPT ![u] = Append(@, "report")]
       ELSE IF test_result[u].state = "Err"
       THEN /\ report' = [report EXCEPT ![u] =
                            Failed("test_result", UnwrapPanic(test_result[u], u))]
            /\ pc' = [pc EXCEPT ![u] = "done"]
            /\ trace' = [trace EXCEPT ![u] = Append(@, "report")]
       ELSE /\ pc' = [pc EXCEPT ![u] = "unwrap_teardown"]
            /\ UNCHANGED <<report, trace>>
    /\ UNCHANGED <<suite, expansion, bindings, test_result, teardown_result,
                   setupCalls, setupCount, teardownCount>>

\* test_result.unwrap();
UnwrapTestResult(u) ==
    /\ pc[u] = "unwrap_test"
    /\ IF test_result[u].state = "Err"
       THEN /\ report' = [report EXCEPT ![u] =
                            Failed("test_result", UnwrapPanic(test_result[u], u))]
            /\ pc' = [pc EXCEPT ![u] = "done"]
            /\ trace' = [trace EXCEPT ![u] = Append(@, "report")]
       ELSE /\ pc' = [pc EXCEPT ![u] = "unwrap_teardown"]
            /\ UNCHANGED <<report, trace>>
    /\ UNCHANGED <<suite, expansion, bindings, test_result, teardown_result,
                   setupCalls, setupCount, teardownCount>>

\* Variant: teardown_result is dropped without being looked at.
UnwrapTeardownResultIgnored(u) ==
    /\ pc[u] = "unwrap_teardown"
    /\ report' = [report EXCEPT ![u] = Passed]
    /\ pc' = [pc EXCEPT ![u] = "done"]
    /\ trace' = [trace EXCEPT ![u] = Append(@, "report")]
    /\ UNCHANGED <<suite, expansion, bindings, test_result, teardown_result,
                   setupCalls, setupCount, teardownCount>>

\* teardown_result.unwrap();  then the fn returns.
UnwrapTeardownResult(u) ==
    /\ pc[u] = "unwrap_teardown"
    /\ report' = [report EXCEPT ![u] =
                    IF teardown_result[u].state = "Err"
                    THEN Failed("teardown_result", UnwrapPanic(teardown_result[u], u))
                    ELSE Passed]
    /\ pc' = [pc EXCEPT ![u] = "done"]
    /\ trace' = [trace EXCEPT ![u] = Append(@, "report")]
    /\ UNCHANGED <<suite, expansion, bindings, test_result, teardown_result,
                   setupCalls, setupCount, teardownCount>>

\* The harness runs the units it discovered, each on its own thread: any
\* unit may take its next statement.
Next ==
    \/ Expand
    \/ \E u \in Units, panics \in BOOLEAN : CallSetup(u, panics)
    \/ \E u \in Units : StartBody(u)
    \/ \E u \in Units, panics \in BOOLEAN : FinishBody(u, panics)
    \/ \E u \in Units, panics \in BOOLEAN : RunTeardown(u, panics)
    \/ \E u \in Units : UnwrapTestResult(u)
    \/ \E u \in Units : UnwrapTeardownResult(u)

Spec == Init /\ [][Next]_vars

\* Generation alone, over all suite descriptions.
SpecExpand == InitExpand /\ [][Expand]_vars

(***************************************************************************)
(* Properties                                                              *)
(***************************************************************************)
Occurs(e, tr) == \E i \in 1..Len(tr) : tr[i] = e

IsPrefix(a, b) == Len(a) <= Len(b) /\ \A i \in 1..Len(a) : a[i] = b[i]

NormalRun == <<"setup", "body", "body_end", "teardown", "report">>

SetupPanicRun == <<"setup_panic", "report">>

\* C1: in a suite that declares a teardown, a unit never calls the user's
\* teardown more than once, and a unit whose body was started and that has
\* finished has called it exactly once, whether the body returned or panicked.
C1_TeardownExactlyOnce ==
    \A u \in Units :
        suite.teardown =>
            /\ teardownCount[u] <= 1
            /\ (pc[u] = "done" /\ Occurs("body", trace[u])) => teardownCount[u] = 1
            /\ (pc[u] \in {"unwrap_test", "unwrap_teardown"}) => teardownCount[u] = 1

C1_Witness ==
    \E u \in Units :
        /\ suite.teardown
        /\ pc[u] = "done"
        /\ test_result[u].state = "Err"
        /\ teardownCount[u] = 1

\* C2: a finished unit whose body panicked and whose teardown returned is
\* reported as failed.
C2_BodyFailureNotMasked ==
    \A u \in Units :
        (pc[u] = "done" /\ test_result[u].state = "Err" /\ teardown_result[u].state = "Ok")
            => report[u].status = "failed"

C2_Witness ==
    \E u \in Units :
        /\ pc[u] = "done"
        /\ test_result[u].state = "Err"
        /\ teardown_result[u].state = "Ok"
        /\ suite.teardown

\* C3: a finished unit whose body returned and whose teardown panicked is
\* reported as failed, by the unwrap of teardown_result; a finished unit whose
\* body and teardown both returned is reported as passed.
C3_TeardownFailureReported ==
    \A u \in Units :
        pc[u] = "done" /\ test_result[u].state = "Ok" =>
            /\ teardown_result[u].state = "Err" =>
                  report[u].status = "failed" /\ report[u].raised = "teardown_result"
            /\ teardown_result[u].state = "Ok" => report[u] = Passed

C3_Witness ==
    \E u, v \in Units :
        /\ pc[u] = "done" /\ test_result[u].state = "Ok" /\ teardown_result[u].state = "Err"
        /\ pc[v] = "done" /\ test_result[v].state = "Ok" /\ teardown_result[v].state = "Ok"

\* C4: in a suite that declares a setup, a unit has called the user's setup
\* once as soon as it is past its first statement (and never more), no two
\* units share an invocation, and in a unit that binds as many names as setup
\* returns fixtures, the i-th name holds the i-th fixture of the unit's own
\* invocation.
C4_FreshFixturesPerUnit ==
    \A u \in Units :
        suite.setup.declared =>
            /\ Len(setupCalls[u]) = (IF pc[u] = "setup" THEN 0 ELSE 1)
            /\ \A v \in Units :
                  (u # v /\ pc[u] # "setup" /\ pc[v] # "setup")
                      => setupCalls[u][1] # setupCalls[v][1]
            /\ (/\ Occurs("setup", trace[u])
                /\ Len(suite.setup.types) >= 1
                /\ expansion.units[u].binds = Len(suite.setup.types))
                  => /\ Len(bindings[u]) = Len(suite.setup.types)
                     /\ \A i \in 1..Len(suite.setup.types) :
                           bindings[u][i] = Fixture(setupCalls[u][1], i)

C4_Witness ==
    \E u, v \in Units :
        /\ u < v
        /\ Len(suite.setup.types) = 2
        /\ expansion.units[u].binds = 2 /\ expansion.units[v].binds = 2
        /\ pc[u] = "in_body" /\ pc[v] = "in_body"
        /\ setupCalls[v][1] < setupCalls[u][1]

\* The test blocks of a description, each with the namespace path it is
\* declared under.
DeclaredPaths(s) ==
    {<<s.tests[i].name>> : i \in 1..Len(s.tests)} \cup
    UNION {{<<s.mods[m].name, s.mods[m].tests[i].name>> : i \in 1..Len(s.mods[m].tests)}
           : m \in 1..Len(s.mods)}

RECURSIVE SumLens(_)
SumLens(mods) == IF mods = <<>> THEN 0 ELSE Len(Head(mods).tests) + SumLens(Tail(mods))

DeclaredCount(s) == Len(s.tests) + SumLens(s.mods)

\* C5: generation of an accepted suite yields as many units as the
\* description has test blocks, no two units under the same path, and the
\* paths of the units are the paths of the test blocks.
C5_OneUnitPerEntry ==
    expansion.ok =>
        /\ Len(expansion.units) = DeclaredCount(suite)
        /\ \A i, j \in 1..Len(expansion.units) :
              expansion.units[i].path = expansion.units[j].path => i = j
        /\ {expansion.units[i].path : i \in 1..Len(expansion.units)} = DeclaredPaths(suite)

C5_Witness ==
    /\ expansion.ok
    /\ Len(suite.mods) = 2
    /\ Len(suite.mods[1].tests) = 2
    /\ Len(suite.mods[2].tests) = 2
    /\ Len(expansion.units) = 4

\* The number of bindings of every test block of a description.
DeclaredBinds(s) ==
    {s.tests[i].binds : i \in 1..Len(s.tests)} \cup
    UNION {{s.mods[m].tests[i].binds : i \in 1..Len(s.mods[m].tests)}
           : m \in 1..Len(s.mods)}

\* C6: once generation has run, a suite one of whose test blocks binds k
\* names, k neither 0 nor the number of fixture types of setup, was rejected.
C6_ArityMismatchRejected ==
    (expansion # Unexpanded
        /\ \E k \in DeclaredBinds(suite) : k # 0 /\ k # Len(suite.setup.types))
    => ~expansion.ok

\* C7: a finished unit whose body panicked is reported as failed by the
\* unwrap of test_result, also when its teardown panicked too.
C7_BodyFailureHasPriority ==
    \A u \in Units :
        pc[u] = "done" /\ test_result[u].state = "Err" =>
            report[u].status = "failed" /\ report[u].raised = "test_result"

C7_Witness ==
    \E u \in Units :
        /\ pc[u] = "done"
        /\ test_result[u].state = "Err"
        /\ teardown_result[u].state = "Err"

\* C8: the calls of a unit happen in the order setup, body, teardown, report
\* (a unit whose setup panicked reports at once), teardown is not called
\* before the body has ended, and a captured failure is raised only after the
\* body and the teardown have both run.
C8_StepOrder ==
    \A u \in Units :
        /\ IsPrefix(trace[u], NormalRun) \/ trace[u] = SetupPanicRun
        /\ teardownCount[u] > 0 => Occurs("body_end", trace[u])
        /\ teardown_result[u] # Unset => test_result[u] # Unset
        /\ report[u].raised \in {"test_result", "teardown_result"} =>
              /\ Occurs("body_end", trace[u])
              /\ Occurs("teardown", trace[u])
              /\ test_result[u] # Unset /\ teardown_result[u] # Unset

C8_Witness ==
    \E u \in Units :
        /\ trace[u] = NormalRun
        /\ report[u].raised = "test_result"
        /\ teardownCount[u] = 1

\* C9: a unit that raises the failure captured from its body raises it with
\* the payload the body panicked with.
C9_OriginalPayloadReraised ==
    \A u \in Units :
        report[u].raised = "test_result" => report[u].payload = test_result[u].err

\* C10: a unit whose setup panicked is finished and reported as failed with
\* setup's own panic; its body was never started, nothing was captured and
\* the user's teardown was not called.
C10_SetupPanicPropagates ==
    \A u \in Units :
        Occurs("setup_panic", trace[u]) =>
            /\ pc[u] = "done"
            /\ report[u] = Failed("setup", UserPanic("setup", u))
            /\ ~Occurs("body", trace[u])
            /\ test_result[u] = Unset /\ teardown_result[u] = Unset
            /\ teardownCount[u] = 0

C10_Witness ==
    \E u \in Units :
        /\ Occurs("setup_panic", trace[u])
        /\ suite.teardown
        /\ suite.mods # <<>>

====
